---- MODULE Spec2Model ----
(***************************************************************************)
(* A model of parsedvd/IsoFileCore.py: the IFO chapter decode              *)
(* (get_ifo_info), the per-title split (__split_chapters_clips), the join  *)
(* and the safe_indices correction (split_titles) and the chapter query    *)
(* resolver (get_title).                                                   *)
(*                                                                         *)
(* Python lists are objects: get_ifo_info is memoized (lru_cache) and      *)
(* split_titles appends to and extends the very lists the cache holds, so  *)
(* lists live in a heap and the program's fields hold references.          *)
(*   heap[r]            the list at address r, a sequence of integers; an  *)
(*                      outer list holds the addresses of its inner lists  *)
(*   reference 0        None                                               *)
(*   <<>> / <<x>>       Optional: None / x                                 *)
(* A vs.VideoNode is a sequence of segments <<lo, hi>>, the frames lo..hi-1*)
(* of the raw decode, adjacent segments merged; it never is empty, so <<>> *)
(* is None.                                                                *)
(***************************************************************************)
EXTENDS Integers, Sequences, FiniteSets, TLC

\* ------------------------------------------------------------------ bounds
\* Playback times on an enumerated disc, over all its program chains.
MaxMarks == 2
\* Frame count of the decoded clip of an enumerated disc.
MaxFrames == 5
\* split_titles invocations in one behaviour.
MaxCalls == 3
\* Chapter indices of the queries of the resolver specification, -MaxQuery..MaxQuery.
MaxQuery == 4

\* ---------------------------------------------------------- program state
VARIABLES
    ifo_files,       \* the IFO files under the mount path: each a list of program chains
    vob_files,       \* number of VOB files under the mount path
    num_frames,      \* frame count of the clip the indexer decodes
    idx,             \* indexer.get_info(idx_path, 0): videos[0].size, len(frame_data)
    safe_indices,    \* self.safe_indices
    mount_path,      \* self.__mount_path is set
    idx_path,        \* self.__idx_path is set
    clip,            \* self.__clip
    index_info0,     \* self.index_info[0]
    ifo_cache,       \* the lru_cache of get_ifo_info, one mount path
    heap,            \* the list objects
    split_chapters,  \* self.split_chapters, a reference
    split_clips,     \* self.split_clips, Optional
    joined_clip,     \* self.joined_clip
    joined_chapters, \* self.joined_chapters, a reference
    durations,       \* the split points of the last __split_chapters_clips that sliced
    broken,          \* the last split_titles to reach line 209 found the chapters broken
    calls,           \* split_titles invocations so far
    ret              \* the last call made on the instance and its outcome

inputs == <<ifo_files, vob_files, num_frames, idx, safe_indices>>
fields == <<mount_path, idx_path, clip, index_info0, ifo_cache, heap,
            split_chapters, split_clips, joined_clip, joined_chapters, durations, broken,
            calls>>
vars == <<inputs, fields, ret>>

None == <<>>
Some(x) == <<x>>
NoRef == 0

\* ------------------------------------------------------- python sequences
Min(a, b) == IF a < b THEN a ELSE b
Max(a, b) == IF a > b THEN a ELSE b
Last(s) == s[Len(s)]

\* s[i] is no IndexError
PyInRange(s, i) == i >= -Len(s) /\ i < Len(s)
\* s[i], a negative i counting from the end
PyAt(s, i) == IF i >= 0 THEN s[i + 1] ELSE s[Len(s) + i + 1]

RECURSIVE accumulate(_)
accumulate(s) ==
    IF Len(s) <= 1 THEN s
    ELSE LET p == accumulate(SubSeq(s, 1, Len(s) - 1))
         IN  Append(p, Last(p) + Last(s))

RECURSIVE SumSeq(_)
SumSeq(s) == IF s = <<>> THEN 0 ELSE Head(s) + SumSeq(Tail(s))

\* -------------------------------------------------------------- the clips
ClipLen(c) == SumSeq([k \in 1..Len(c) |-> c[k][2] - c[k][1]])

\* a + b
ClipAdd(a, b) ==
    IF Last(a)[2] = Head(b)[1]
    THEN SubSeq(a, 1, Len(a) - 1) \o <<<<Last(a)[1], Head(b)[2]>>>> \o Tail(b)
    ELSE a \o b

\* slice(s, e).indices(n)
SliceStart(n, s) ==
    IF s = None THEN 0
    ELSE IF s[1] < 0 THEN Max(n + s[1], 0) ELSE Min(s[1], n)
SliceStop(n, e) ==
    IF e = None THEN n
    ELSE IF e[1] < 0 THEN Max(n + e[1], 0) ELSE Min(e[1], n)

\* frames from..to-1 of c, 0 <= from < to <= ClipLen(c)
RECURSIVE Frames(_, _, _)
Frames(c, from, to) ==
    IF c = <<>> \/ to <= 0 THEN <<>>
    ELSE LET seg == Head(c)
             l == seg[2] - seg[1]
             rest == Frames(Tail(c), Max(from - l, 0), to - l)
         IN  IF from >= l THEN rest
             ELSE <<<<seg[1] + from, seg[1] + Min(to, l)>>>> \o rest

\* clip[s:e]: std.Trim refuses a slice that holds no frame
SliceFails(c, s, e) == SliceStop(ClipLen(c), e) <= SliceStart(ClipLen(c), s)
Slice(c, s, e) == Frames(c, SliceStart(ClipLen(c), s), SliceStop(ClipLen(c), e))

\* --------------------------------------------------------- the instance
Self ==
    [mount_path |-> mount_path, idx_path |-> idx_path, clip |-> clip,
     index_info0 |-> index_info0, ifo_cache |-> ifo_cache, heap |-> heap,
     split_chapters |-> split_chapters, split_clips |-> split_clips,
     joined_clip |-> joined_clip, joined_chapters |-> joined_chapters,
     durations |-> durations, broken |-> broken, calls |-> calls]

\* what a method leaves behind: the instance, the exception raised ("" for none) and
\* the line of IsoFileCore.py that raised it, the value returned
Raise(S, e, line) == [st |-> S, err |-> e, line |-> line, val |-> None]
Return(S, v) == [st |-> S, err |-> "", line |-> 0, val |-> v]

\* the lists an outer list holds, by value
Lists(h, r) == [k \in 1..Len(h[r]) |-> h[h[r][k]]]

\* ---------------------------------------------------------- get_ifo_info
\* vts_ifo.FRAMERATE, a Fraction as <<numerator, denominator>>
FRAMERATE == (1 :> <<25, 1>>) @@ (3 :> <<30000, 1001>>)

PbFrames(pb_time, raw_fps) ==
    pb_time.frames + (pb_time.hours * 3600 + pb_time.minutes * 60 + pb_time.seconds) * raw_fps

\* program_chains += curr_pgci.program_chains[int(m_ifos):]
RECURSIVE ProgramChains(_, _)
ProgramChains(files, m_ifos) ==
    IF files = <<>> THEN <<>>
    ELSE SubSeq(Head(files), (IF m_ifos THEN 1 ELSE 0) + 1, Len(Head(files)))
             \o ProgramChains(Tail(files), m_ifos)

\* the loop over program_chains: fps so far, split_chapters so far
RECURSIVE DecodeChains(_, _, _)
DecodeChains(progs, fps, acc) ==
    IF progs = <<>> THEN [err |-> "", line |-> 0, split_chapters |-> acc, fps |-> fps]
    ELSE LET prog == Head(progs)
             dvd_fps_s == [k \in 1..Len(prog) |-> prog[k].fps]
         IN  IF \E k \in 1..Len(prog) : dvd_fps_s[1] # dvd_fps_s[k]
             THEN [err |-> "ValueError", line |-> 148, split_chapters |-> <<>>, fps |-> fps]
             ELSE IF prog = <<>>
             THEN [err |-> "IndexError", line |-> 146, split_chapters |-> <<>>, fps |-> fps]
             ELSE IF dvd_fps_s[1] \notin DOMAIN FRAMERATE
             THEN [err |-> "KeyError", line |-> 146, split_chapters |-> <<>>, fps |-> fps]
             ELSE LET fps2 == FRAMERATE[dvd_fps_s[1]]
                      raw_fps == IF fps2[1] = 30000 THEN 30 ELSE 25
                  IN  DecodeChains(Tail(progs), fps2,
                          Append(acc, <<0>> \o [k \in 1..Len(prog) |-> PbFrames(prog[k], raw_fps)]))

\* the lists of vs put on the heap one after the other, and their addresses
RECURSIVE AllocAll(_, _, _)
AllocAll(h, vs, refs) ==
    IF vs = <<>> THEN [heap |-> h, refs |-> refs]
    ELSE AllocAll(Append(h, Head(vs)), Tail(vs), Append(refs, Len(h) + 1))

\* lines 157..161: the chapters become lists on the heap, and the result is memoized
Memoized(S, a, fps, m_ifos) ==
    Return([S EXCEPT !.heap = Append(a.heap, a.refs),
                     !.ifo_cache = Some([chapters |-> Len(a.heap) + 1, fps |-> fps, m_ifos |-> m_ifos])],
           [chapters |-> Len(a.heap) + 1, fps |-> fps, m_ifos |-> m_ifos])

Decoded(S, dec, m_ifos) ==
    IF dec.err # "" THEN Raise(S, dec.err, dec.line)
    ELSE Memoized(S,
             AllocAll(S.heap,
                      [k \in 1..Len(dec.split_chapters) |-> accumulate(dec.split_chapters[k])], <<>>),
             dec.fps, m_ifos)

\* the body of get_ifo_info
IfoInfo(S, files) ==
    Decoded(S, DecodeChains(ProgramChains(files, Len(files) > 1), <<30000, 1001>>, <<>>),
            Len(files) > 1)

\* @lru_cache: the body runs on a miss only, and an exception is not cached
get_ifo_info(S) ==
    IF S.ifo_cache # None THEN Return(S, S.ifo_cache[1]) ELSE IfoInfo(S, ifo_files)

\* ---------------------------------------------------------------- source
RawClip == <<<<0, num_frames>>>>

\* lines 61..69
Indexed(info) ==
    IF info.err # "" THEN info ELSE Return([info.st EXCEPT !.clip = RawClip], RawClip)

source(S) ==
    IF vob_files = 0 THEN Raise([S EXCEPT !.mount_path = TRUE], "FileNotFoundError", 53)
    ELSE Indexed(get_ifo_info([S EXCEPT !.mount_path = TRUE, !.idx_path = TRUE,
                                        !.index_info0 = Some(idx)]))

\* ------------------------------------------------ __split_chapters_clips
\* line 110
Durations(lists) == accumulate(<<0>> \o [k \in 1..Len(lists) |-> Last(lists[k])])

\* line 116
TitleClips(c, durs) == [k \in 1..(Len(durs) - 1) |-> Slice(c, Some(durs[k]), Some(durs[k + 1]))]
TitleClipsFail(c, durs) ==
    \E k \in 1..(Len(durs) - 1) : SliceFails(c, Some(durs[k]), Some(durs[k + 1]))

\* lines 118..120: the menu clip, and [0, dvd_menu_length] appended to the list passed in
MenuAppended(S, chapters_ref, dvd_menu_length, clips) ==
    Return([S EXCEPT !.heap = [Append(S.heap, <<0, dvd_menu_length>>)
                                  EXCEPT ![chapters_ref] = Append(@, Len(S.heap) + 1)]],
           [chapters |-> chapters_ref,
            clips |-> Append(clips, Slice(S.clip, None, Some(dvd_menu_length)))])

\* lines 116..122, c the clip without its menu
Trimmed(S, chapters_ref, dvd_menu_length, durs, c) ==
    IF TitleClipsFail(c, durs) THEN Raise(S, "vs.Error", 116)
    ELSE IF dvd_menu_length = 0
    THEN Return([S EXCEPT !.durations = durs],
                [chapters |-> chapters_ref, clips |-> TitleClips(c, durs)])
    ELSE IF SliceFails(S.clip, None, Some(dvd_menu_length)) THEN Raise(S, "vs.Error", 119)
    ELSE MenuAppended([S EXCEPT !.durations = durs], chapters_ref, dvd_menu_length,
                      TitleClips(c, durs))

split_chapters_clips(S, chapters_ref, dvd_menu_length) ==
    IF SliceFails(S.clip, Some(dvd_menu_length), None) THEN Raise(S, "vs.Error", 113)
    ELSE Trimmed(S, chapters_ref, dvd_menu_length, Durations(Lists(S.heap, chapters_ref)),
                 Slice(S.clip, Some(dvd_menu_length), None))

\* ---------------------------------------------------------- split_titles
\* __gen_joined_clip, after split_clips[0]
RECURSIVE JoinClips(_, _)
JoinClips(joined, rest) ==
    IF rest = <<>> THEN joined ELSE JoinClips(ClipAdd(joined, Head(rest)), Tail(rest))

gen_joined_clip(S) ==
    IF S.split_clips[1] = <<>> THEN Raise(S, "IndexError", 186)
    ELSE Return([S EXCEPT !.joined_clip = JoinClips(Head(S.split_clips[1]), Tail(S.split_clips[1]))],
                None)

\* Shifted with the shift forgotten
Unshifted(rrange, last) == SelectSeq(rrange, LAMBDA r : r # 0)

\* r + joined_chapters[-1] for r in rrange if r != 0
Shifted(rrange, last) ==
    [k \in 1..Len(SelectSeq(rrange, LAMBDA r : r # 0)) |->
        SelectSeq(rrange, LAMBDA r : r # 0)[k] + last]

\* __gen_joined_chapts: joined_chapters is spl_chapts[0] itself, and += extends that list
RECURSIVE JoinChapts(_, _, _)
JoinChapts(h, joined, rest) ==
    IF rest = <<>> THEN h
    ELSE JoinChapts([h EXCEPT ![joined] = @ \o Shifted(h[Head(rest)], Last(h[joined]))],
                    joined, Tail(rest))

gen_joined_chapts(S) ==
    IF S.heap[S.split_chapters] = <<>> THEN Raise(S, "IndexError", 196)
    ELSE Return([S EXCEPT !.heap = JoinChapts(S.heap, Head(S.heap[S.split_chapters]),
                                              Tail(S.heap[S.split_chapters])),
                          !.joined_chapters = Head(S.heap[S.split_chapters])],
                None)

\* the assignment of what the splitter returned, then lines 206..207 (246..247)
Assigned(sp) ==
    [sp.st EXCEPT !.split_chapters = sp.val.chapters, !.split_clips = Some(sp.val.clips)]
JoinedClip(jc) == IF jc.err # "" THEN jc ELSE gen_joined_chapts(jc.st)
Join(sp) == JoinedClip(gen_joined_clip(Assigned(sp)))

\* dvd_menu_length = len(idx_info.frame_data) if vts_0_size > 2 << 12 else 0
MenuThreshold == 8192
MenuLength(idx_info) == IF idx_info.size > MenuThreshold THEN idx_info.frame_data ELSE 0

\* the synthetic end boundary of title i (from 0) of count
Clamp(frames, dvd_menu_length, count, i) == frames - dvd_menu_length - count + i + 2

\* the first j (from 1) with list[j] + offset >= frames, 0 when there is none
FirstOver(list, offset, frames) ==
    IF \E j \in 1..Len(list) : list[j] + offset >= frames
    THEN CHOOSE j \in 1..Len(list) :
             /\ list[j] + offset >= frames
             /\ \A k \in 1..(j - 1) : list[k] + offset < frames
    ELSE 0

\* lines 225..233: title i (from 1) is cut at j, the titles after it become [0, 1],
\* and the menu's list is put back
CutAt(lists, i, j, frames, dvd_menu_length, acc) ==
    [k \in 1..Len(lists) |->
        IF dvd_menu_length # 0 /\ k = Len(lists) THEN lists[k]
        ELSE IF k < i THEN acc[k]
        ELSE IF k = i
        THEN Append(SubSeq(lists[i], 1, j - 1), Clamp(frames, dvd_menu_length, Len(lists), i - 1))
        ELSE <<0, 1>>]

\* the loops over i and j of the correction, from title i (from 1) on: the corrected lists
RECURSIVE CorrectFrom(_, _, _, _, _, _)
CorrectAt(lists, i, j, offset, frames, dvd_menu_length, acc) ==
    IF j = 0
    THEN CorrectFrom(lists, i + 1, offset + Last(lists[i]), frames, dvd_menu_length,
                     Append(acc, lists[i]))
    ELSE CutAt(lists, i, j, frames, dvd_menu_length, acc)

CorrectFrom(lists, i, offset, frames, dvd_menu_length, acc) ==
    IF i > Len(lists) THEN acc
    ELSE CorrectAt(lists, i, FirstOver(lists[i], offset, frames), offset, frames,
                   dvd_menu_length, acc)

Corrected(S, dvd_menu_length) ==
    CorrectFrom(Lists(S.heap, S.split_chapters), 1, 0, ClipLen(S.clip), dvd_menu_length, <<>>)

\* split_chapters if dvd_menu_length == 0 else split_chapters[:-1]
WithoutMenu(lists, dvd_menu_length) ==
    IF dvd_menu_length = 0 THEN lists ELSE SubSeq(lists, 1, Len(lists) - 1)

\* the corrected lists are new objects, in a new outer list, the last one allocated
Installed(S, a) == [S EXCEPT !.heap = Append(a.heap, a.refs)]

\* lines 241..247; S is the instance as the first pass left it
Recut(S, sp) == IF sp.err # "" THEN Raise(S, sp.err, sp.line) ELSE Join(sp)
Resplit(S, S2, dvd_menu_length) ==
    Recut(S, split_chapters_clips(S2, Len(S2.heap), dvd_menu_length))

correct_titles(S, dvd_menu_length) ==
    Resplit(S,
            Installed(S, AllocAll(S.heap,
                                  WithoutMenu(Corrected(S, dvd_menu_length), dvd_menu_length),
                                  <<>>)),
            dvd_menu_length)

\* what split_titles returns, the lists by value
Result(S) ==
    [split_clips |-> S.split_clips[1],
     split_chapters |-> Lists(S.heap, S.split_chapters),
     joined_clip |-> S.joined_clip,
     joined_chapters |-> S.heap[S.joined_chapters]]

Returned(r) == IF r.err # "" THEN r ELSE Return(r.st, Result(r.st))

\* lines 209..249
Checked(jr) ==
    IF jr.err # "" THEN jr
    ELSE IF Last(jr.st.heap[jr.st.joined_chapters]) > ClipLen(jr.st.clip)
    THEN IF safe_indices
         THEN Returned(correct_titles([jr.st EXCEPT !.broken = TRUE],
                                      MenuLength(jr.st.index_info0[1])))
         ELSE Return([jr.st EXCEPT !.broken = TRUE], Result(jr.st))
    ELSE Return([jr.st EXCEPT !.broken = FALSE], Result(jr.st))

\* lines 182..207
FirstCut(S, sp) == IF sp.err # "" THEN Raise(S, sp.err, sp.line) ELSE Checked(Join(sp))
FirstSplit(S, chapters_ref) ==
    FirstCut(S, split_chapters_clips(S, chapters_ref, MenuLength(S.index_info0[1])))

\* lines 173..176
IndexInfo(S) ==
    [S EXCEPT !.index_info0 = Some(IF S.index_info0 # None THEN S.index_info0[1] ELSE idx)]
SplitWith(info) ==
    IF info.err # "" THEN info ELSE FirstSplit(IndexInfo(info.st), info.val.chapters)

\* lines 164..171
Entered(S) == [S EXCEPT !.idx_path = TRUE, !.mount_path = TRUE, !.calls = @ + 1]
Sourced(src) == IF src.err # "" THEN src ELSE SplitWith(get_ifo_info(src.st))

split_titles(S) ==
    IF S.clip = None THEN Sourced(source(Entered(S)))
    ELSE SplitWith(get_ifo_info(Entered(S)))

\* ------------------------------------------------------------- get_title
\* a chapters argument: None, an int, a tuple of two Optional ints, a list of those
QNone == [kind |-> "none", c |-> 0, start |-> None, end |-> None, items |-> <<>>]
QInt(c) == [kind |-> "int", c |-> c, start |-> None, end |-> None, items |-> <<>>]
QPair(s, e) == [kind |-> "tuple", c |-> 0, start |-> s, end |-> e, items |-> <<>>]
QList(items) == [kind |-> "list", c |-> 0, start |-> None, end |-> None, items |-> items]

\* lines 260..265: the boundaries and the clip the query is resolved against
Selected(S, clip_index) ==
    IF clip_index = None
    THEN [err |-> "", ranges |-> S.heap[S.joined_chapters], clip |-> S.joined_clip]
    ELSE IF ~PyInRange(S.heap[S.split_chapters], clip_index[1])
              \/ ~PyInRange(S.split_clips[1], clip_index[1])
    THEN [err |-> "IndexError", ranges |-> <<>>, clip |-> None]
    ELSE [err |-> "", ranges |-> S.heap[PyAt(S.heap[S.split_chapters], clip_index[1])],
          clip |-> PyAt(S.split_clips[1], clip_index[1])]

\* ranges[i] and ranges[j], or the IndexError of the line that looks them up
Lookup(ranges, i, j, line) ==
    IF PyInRange(ranges, i) /\ PyInRange(ranges, j)
    THEN [err |-> "", line |-> 0, start |-> PyAt(ranges, i), end |-> PyAt(ranges, j)]
    ELSE [err |-> "IndexError", line |-> line, start |-> 0, end |-> 0]

\* IntBounds with a negative index taken python-style, from len(ranges)
IntBoundsFromLen(ranges, chapters) ==
    IF chapters = Len(ranges) - 1 THEN Lookup(ranges, -2, -1, 276)
    ELSE IF chapters = 0 THEN Lookup(ranges, 0, 1, 278)
    ELSE IF chapters < 0
    THEN Lookup(ranges, Len(ranges) + chapters, Len(ranges) + chapters + 1, 280)
    ELSE Lookup(ranges, chapters, chapters + 1, 283)

\* lines 272..284: the boundaries an int selects
IntBounds(ranges, chapters) ==
    IF chapters = Len(ranges) - 1 THEN Lookup(ranges, -2, -1, 276)
    ELSE IF chapters = 0 THEN Lookup(ranges, 0, 1, 278)
    ELSE IF chapters < 0
    THEN Lookup(ranges, Len(ranges) - 1 + chapters, Len(ranges) + chapters, 280)
    ELSE Lookup(ranges, chapters, chapters + 1, 283)

\* lines 288..302: the boundaries a tuple selects
PairStart(rlength, start) ==
    IF start = None THEN 0
    ELSE IF start[1] < 0 THEN rlength - 1 + start[1] ELSE start[1]
PairEnd(rlength, end) ==
    IF end = None THEN rlength - 1
    ELSE IF end[1] < 0 THEN rlength - 1 + end[1] ELSE end[1] + 1

PairBounds(ranges, start, end) ==
    Lookup(ranges, PairStart(Len(ranges), start), PairEnd(Len(ranges), end), 302)

\* a result: the slice taken at line, start:end of the selected clip, and the clip returned
Sliced(S, c, b, line) ==
    IF b.err # "" THEN Raise(S, b.err, b.line)
    ELSE IF SliceFails(c, Some(b.start), Some(b.end)) THEN Raise(S, "vs.Error", line)
    ELSE Return(S, [range |-> Some(<<b.start, b.end>>),
                    frames |-> Slice(c, Some(b.start), Some(b.end))])

\* one chapters argument that is no list, the titles being split
Resolved(S, sel, chapters) ==
    IF sel.err # "" THEN Raise(S, sel.err, 261)
    ELSE IF chapters.kind = "int" THEN Sliced(S, sel.clip, IntBounds(sel.ranges, chapters.c), 286)
    ELSE IF chapters.kind = "tuple"
    THEN Sliced(S, sel.clip, PairBounds(sel.ranges, chapters.start, chapters.end), 302)
    ELSE Return(S, [range |-> None, frames |-> sel.clip])

resolve(S, clip_index, chapters) == Resolved(S, Selected(S, clip_index), chapters)

\* line 304: each element resolved in turn, the first exception ends the call
RECURSIVE resolve_all(_, _, _, _)
Collected(S, clip_index, rest, acc, r) ==
    IF r.err # "" THEN r ELSE resolve_all(S, clip_index, rest, Append(acc, r.val))

resolve_all(S, clip_index, items, acc) ==
    IF items = <<>> THEN Return(S, acc)
    ELSE Collected(S, clip_index, Tail(items), acc, resolve(S, clip_index, Head(items)))

\* lines 260..306
Answer(S, clip_index, chapters) ==
    IF chapters.kind # "list" THEN resolve(S, clip_index, chapters)
    ELSE IF Selected(S, clip_index).err # "" THEN Raise(S, "IndexError", 261)
    ELSE resolve_all(S, clip_index, chapters.items, <<>>)

\* lines 257..258
Split(b, clip_index, chapters) == IF b.err # "" THEN b ELSE Answer(b.st, clip_index, chapters)
WithClip(S, clip_index, chapters) ==
    IF S.split_clips = None \/ S.split_clips[1] = <<>>
    THEN Split(split_titles(S), clip_index, chapters)
    ELSE Answer(S, clip_index, chapters)

\* lines 254..255
Loaded(a, clip_index, chapters) == IF a.err # "" THEN a ELSE WithClip(a.st, clip_index, chapters)

get_title(S, clip_index, chapters) ==
    IF S.clip = None THEN Loaded(source(S), clip_index, chapters)
    ELSE WithClip(S, clip_index, chapters)

\* ------------------------------------------------------------ the inputs
Pb(h, m, s, f, fps) == [hours |-> h, minutes |-> m, seconds |-> s, frames |-> f, fps |-> fps]

\* the playback times of an enumerated disc, 29.97 fps
PbSmall == {Pb(0, 0, 0, f, 3) : f \in {0, 1, 2}}

\* the lists of program chains that hold k playback times, no chain empty
RECURSIVE ChainLists(_)
ChainLists(k) ==
    IF k = 0 THEN {<<>>}
    ELSE UNION {{<<c>> \o d : c \in [1..n -> PbSmall], d \in ChainLists(k - n)} : n \in 1..k}

\* no IFO file, or one IFO file
EnumDiscs == {<<>>} \cup {<<chains>> : chains \in UNION {ChainLists(k) : k \in 0..MaxMarks}}

Idx(size, frame_data) == [size |-> size, frame_data |-> frame_data]
Config(files, vobs, frames, idx_info, safe) ==
    [ifo_files |-> files, vob_files |-> vobs, num_frames |-> frames, idx |-> idx_info,
     safe_indices |-> safe]

EnumConfigs ==
    {Config(d, 1, n, Idx(MenuThreshold + 1, m), s) :
        d \in EnumDiscs, n \in 1..MaxFrames, m \in {0, 1, 2}, s \in BOOLEAN}

\* one title, boundaries [0, 100, 300] and [0, 100, 200, 300]
DiscOverflow == <<<<<<Pb(0, 0, 3, 10, 3), Pb(0, 0, 6, 20, 3)>>>>>>
DiscThree == <<<<<<Pb(0, 0, 3, 10, 3), Pb(0, 0, 3, 10, 3), Pb(0, 0, 3, 10, 3)>>>>>>
\* a chain of two frame rates; a chain of no playback time; 25 fps; two IFO files
DiscVfr == <<<<<<Pb(0, 0, 0, 1, 3), Pb(0, 0, 0, 1, 1)>>>>>>
DiscNoTime == <<<<<<Pb(0, 0, 0, 2, 3)>>, <<>>>>>>
DiscPal == <<<<<<Pb(0, 1, 1, 5, 1)>>, <<Pb(1, 0, 0, 0, 1)>>>>>>
\* two titles, the second one with a playback time of no frame: [0, 1] and [0, 0, 2]
DiscZeroTime == <<<<<<Pb(0, 0, 0, 1, 3)>>, <<Pb(0, 0, 0, 0, 3), Pb(0, 0, 0, 2, 3)>>>>>>
\* three titles of [0, 1], [0, 1] and [0, 2]
DiscThreeTitles == <<<<<<Pb(0, 0, 0, 1, 3)>>, <<Pb(0, 0, 0, 1, 3)>>, <<Pb(0, 0, 0, 2, 3)>>>>>>
DiscTwoIfos ==
    <<<<<<Pb(0, 0, 0, 1, 3)>>, <<Pb(0, 0, 0, 2, 3)>>>>,
      <<<<Pb(0, 0, 0, 1, 3)>>, <<Pb(0, 0, 0, 1, 3), Pb(0, 0, 0, 2, 3)>>>>>>

NamedConfigs ==
    {Config(DiscOverflow, 1, 250, Idx(0, 0), s) : s \in BOOLEAN}
    \cup {Config(DiscThree, 1, 300, Idx(0, 0), FALSE),
          Config(DiscVfr, 1, 5, Idx(0, 0), FALSE),
          Config(DiscNoTime, 1, 5, Idx(0, 0), FALSE),
          Config(DiscPal, 1, 91530, Idx(0, 0), FALSE),
          Config(DiscTwoIfos, 1, 5, Idx(MenuThreshold, 2), TRUE),
          Config(DiscTwoIfos, 1, 7, Idx(MenuThreshold + 1, 2), TRUE),
          Config(DiscTwoIfos, 0, 5, Idx(0, 0), FALSE),
          Config(DiscZeroTime, 1, 5, Idx(MenuThreshold + 1, 2), TRUE),
          Config(DiscZeroTime, 1, 4, Idx(MenuThreshold + 1, 2), TRUE),
          Config(DiscThreeTitles, 1, 4, Idx(MenuThreshold + 1, 1), TRUE),
          Config(DiscThreeTitles, 1, 6, Idx(0, 0), FALSE)}

Configs == EnumConfigs \cup NamedConfigs

\* the state after __init__
InitWith(cfg) ==
    /\ ifo_files = cfg.ifo_files
    /\ vob_files = cfg.vob_files
    /\ num_frames = cfg.num_frames
    /\ idx = cfg.idx
    /\ safe_indices = cfg.safe_indices
    /\ mount_path = FALSE
    /\ idx_path = FALSE
    /\ clip = None
    /\ index_info0 = None
    /\ ifo_cache = None
    /\ heap = <<>>
    /\ split_chapters = NoRef
    /\ split_clips = None
    /\ joined_clip = None
    /\ joined_chapters = NoRef
    /\ durations = <<>>
    /\ broken = FALSE
    /\ calls = 0
    /\ ret = [op |-> "init", clip_index |-> None, chapters |-> QNone, err |-> "", line |-> 0,
              val |-> None]

Init == \E cfg \in Configs : InitWith(cfg)

\* ------------------------------------------------------------ the calls
\* a call's outcome becomes the state
Becomes(r, op, clip_index, chapters) ==
    /\ r.st.calls <= MaxCalls
    /\ mount_path' = r.st.mount_path
    /\ idx_path' = r.st.idx_path
    /\ clip' = r.st.clip
    /\ index_info0' = r.st.index_info0
    /\ ifo_cache' = r.st.ifo_cache
    /\ heap' = r.st.heap
    /\ split_chapters' = r.st.split_chapters
    /\ split_clips' = r.st.split_clips
    /\ joined_clip' = r.st.joined_clip
    /\ joined_chapters' = r.st.joined_chapters
    /\ durations' = r.st.durations
    /\ broken' = r.st.broken
    /\ calls' = r.st.calls
    /\ ret' = [op |-> op, clip_index |-> clip_index, chapters |-> chapters,
               err |-> r.err, line |-> r.line, val |-> r.val]
    /\ UNCHANGED inputs

Source == Becomes(source(Self), "source", None, QNone)

SplitTitles == Becomes(split_titles(Self), "split_titles", None, QNone)

GetTitle(clip_index, chapters) == Becomes(get_title(Self, clip_index, chapters), "get_title", clip_index, chapters)

\* the queries of the lifecycle specification
FewIndices == {None, Some(0)}
FewQueries == {QNone, QInt(0), QList(<<QInt(-1), QPair(None, None)>>)}

Next ==
    \/ Source
    \/ SplitTitles
    \/ \E ci \in FewIndices, q \in FewQueries : GetTitle(ci, q)

Spec == Init /\ [][Next]_vars

\* the resolver specification: few discs, every query up to MaxQuery
DiscTwoTitles == <<<<<<Pb(0, 0, 0, 2, 3)>>, <<Pb(0, 0, 0, 1, 3), Pb(0, 0, 0, 2, 3)>>>>>>
DiscOneTitle == <<<<<<Pb(0, 0, 0, 1, 3), Pb(0, 0, 0, 1, 3)>>>>>>
DiscOneChapter == <<<<<<Pb(0, 0, 0, 2, 3)>>>>>>

QueryConfigs ==
    {Config(DiscThree, 1, 300, Idx(0, 0), FALSE),
     Config(DiscTwoTitles, 1, 5, Idx(MenuThreshold + 1, 1), TRUE),
     Config(DiscOneTitle, 1, 5, Idx(0, 0), FALSE),
     Config(DiscOneChapter, 1, 2, Idx(0, 0), TRUE)}

Indices == {Some(0), Some(1)}
OptIndex == {None} \cup {Some(i) : i \in -MaxQuery..MaxQuery}
Queries ==
    {QNone, QList(<<QInt(0), QPair(Some(0), Some(0))>>)}
    \cup {QInt(c) : c \in -MaxQuery..MaxQuery}
    \cup {QPair(s, e) : s \in OptIndex, e \in OptIndex}

InitQuery == \E cfg \in QueryConfigs : InitWith(cfg)

NextQuery ==
    \/ Source
    \/ SplitTitles
    \/ \E ci \in Indices, q \in Queries : GetTitle(ci, q)

SpecQuery == InitQuery /\ [][NextQuery]_vars

\* ------------------------------------------------------------ properties
\* the last call was split_titles and it returned
SplitReturned == ret.op = "split_titles" /\ ret.err = ""

\* the last call was get_title(clip_index, chapters) with chapters of this kind, and it got
\* as far as looking boundaries up: it returned, or raised after line 261
Looked(kind) ==
    /\ ret.op = "get_title"
    /\ ret.chapters.kind = kind
    /\ ret.err = "" \/ ret.line > 261

\* the boundaries the last get_title was resolved against
Ranges == Selected(Self, ret.clip_index).ranges

\* the title clips of split_clips, the menu's clip left out
TitleCount == Len(durations) - 1
TitleClip(k) == split_clips[1][k]

\* C1: in strict mode, when the merged final boundary exceeded the frame count, what
\* split_titles returns stays within the frame count: the final value of joined_chapters
\* and every split point of the second split are at most num_frames.
C1_CorrectionWithinFrames ==
    (SplitReturned /\ safe_indices /\ broken) =>
        /\ Last(ret.val.joined_chapters) <= num_frames
        /\ \A k \in 1..Len(durations) : durations[k] <= num_frames

\* C2: a tuple (start, -1) with a valid start resolves to the slice ranges[start]:ranges[-1],
\* through the end of the last chapter.
C2_NegativeEndInclusive ==
    (Looked("tuple") /\ ret.err = "" /\ ret.chapters.end = Some(-1) /\ ret.chapters.start # None) =>
        LET b == Ranges
            st == ret.chapters.start[1]
        IN  (Len(b) >= 2 /\ st >= 0 /\ st <= Len(b) - 2) =>
                ret.val.range = Some(<<b[st + 1], b[Len(b)]>>)

\* C3: an int c in -(n-1)..n-1 over n >= 2 boundaries b raises no IndexError and, when
\* get_title returns, the slice taken is b[k]:b[k+1] of one chapter k: c for 0 <= c <= n-2,
\* the last chapter for c = n-1, and the chapter of c + (n-1) for a negative c.
C3_SingleChapterRange ==
    Looked("int") =>
        LET b == Ranges
            n == Len(b)
            c == ret.chapters.c
            \* the chapter, counted from 1, the claim has c designate
            k == IF c = n - 1 THEN n - 1 ELSE IF c >= 0 THEN c + 1 ELSE c + n
        IN  (n >= 2 /\ c >= -(n - 1) /\ c <= n - 1) =>
                /\ ret.err # "IndexError"
                /\ ret.err = "" => ret.val.range = Some(<<b[k], b[k + 1]>>)

\* get_title(0, -1) over the boundaries [0, 100, 200, 300] returned the frames 200..299
C3_Witness ==
    /\ Looked("int")
    /\ ret.err = ""
    /\ ret.chapters.c = -1
    /\ Ranges = <<0, 100, 200, 300>>
    /\ ret.val.range = Some(<<200, 300>>)
    /\ ret.val.frames = <<<<200, 300>>>>

\* C4: the title clips are contiguous from the menu's end, each one run of frames, and
\* reach the end of the clip; with no menu and no correction the joined clip has
\* num_frames frames.
C4_SlicesCoverAll ==
    SplitReturned =>
        /\ \A k \in 1..TitleCount :
               /\ Len(TitleClip(k)) = 1
               /\ TitleClip(k)[1][1] = (IF k = 1 THEN MenuLength(idx) ELSE TitleClip(k - 1)[1][2])
        /\ TitleCount > 0 => TitleClip(TitleCount)[1][2] = num_frames
        /\ (MenuLength(idx) = 0 /\ ~broken) => ClipLen(joined_clip) = num_frames

\* C5: when split_titles returns, the joined clip has as many frames as the clips of
\* split_clips together, and if the chapters were not broken the final value of
\* joined_chapters is that number.
C5_JoinedLength ==
    SplitReturned =>
        /\ ClipLen(joined_clip) = SumSeq([k \in 1..Len(split_clips[1]) |-> ClipLen(split_clips[1][k])])
        /\ ~broken => Last(heap[joined_chapters]) = ClipLen(joined_clip)

\* split_titles returned for two titles and a menu, the second title with a boundary
\* of 0 after its first, on chapters that are not broken
C5_Witness ==
    /\ SplitReturned
    /\ ~broken
    /\ Len(split_clips[1]) = 3
    /\ MenuLength(idx) > 0
    /\ Len(ret.val.split_chapters[2]) = 3
    /\ ret.val.split_chapters[2][2] = 0

\* C6: a call repeated right away answers as the first did: get_title with the same
\* arguments returns the same range, split_titles the same split_chapters and
\* joined_chapters.
C6_RepeatedCallSame ==
    [][/\ (ret.op = "get_title" /\ ret'.op = "get_title" /\ ret'.clip_index = ret.clip_index
               /\ ret'.chapters = ret.chapters)
           => (ret'.err = ret.err /\ ret'.val = ret.val)
       /\ (ret.op = "split_titles" /\ ret'.op = "split_titles" /\ ret.err = "")
           => /\ ret'.err = ""
              /\ ret'.val.split_chapters = ret.val.split_chapters
              /\ ret'.val.joined_chapters = ret.val.joined_chapters]_vars

\* C7: an index outside -(n-1)..n-1, as the int or as the start or the end of the
\* tuple, ends in an IndexError.
C7_OutOfRangeRaises ==
    LET OutOfRange(i) == i < -(Len(Ranges) - 1) \/ i > Len(Ranges) - 1
    IN  /\ (Looked("int") /\ Len(Ranges) >= 2 /\ OutOfRange(ret.chapters.c))
               => ret.err = "IndexError"
        /\ (/\ Looked("tuple")
            /\ Len(Ranges) >= 2
            /\ \/ ret.chapters.start # None /\ OutOfRange(ret.chapters.start[1])
               \/ ret.chapters.end # None /\ OutOfRange(ret.chapters.end[1]))
               => ret.err = "IndexError"

\* C8: with no IFO file under the mount path, a call that gets to get_ifo_info raises
\* NoIfoFilesFound, nothing is memoized and nothing is decoded, split or joined.
C8_NoIfoFilesRaises ==
    (ifo_files = <<>> /\ vob_files > 0 /\ ret.op # "init") =>
        /\ ret.err = "NoIfoFilesFound"
        /\ ifo_cache = None
        /\ clip = None
        /\ split_clips = None
        /\ joined_clip = None

\* C9: after split_titles, every list of split_chapters and joined_chapters starts at 0,
\* is non-decreasing and holds no negative entry.
C9_BoundariesWellFormed ==
    LET WellFormed(list) ==
            /\ list # <<>>
            /\ list[1] = 0
            /\ \A k \in 1..(Len(list) - 1) : list[k] <= list[k + 1]
            /\ \A k \in 1..Len(list) : list[k] >= 0
    IN  SplitReturned =>
            /\ \A k \in 1..Len(ret.val.split_chapters) : WellFormed(ret.val.split_chapters[k])
            /\ WellFormed(ret.val.joined_chapters)

\* the chapters of title i (from 1): the playback times of its program chain, one for a menu
ChapterCount(i) ==
    LET progs == ProgramChains(ifo_files, Len(ifo_files) > 1)
    IN  IF i <= Len(progs) THEN Len(progs[i]) ELSE 1

\* C10: after the first split_titles, on chapters not broken, the last boundary of every
\* title is the frame count of its clip and it has one boundary more than chapters.
C10_TitleOwnBoundaries ==
    (SplitReturned /\ ~broken /\ calls = 1) =>
        \A i \in 1..Len(ret.val.split_chapters) :
            /\ Last(ret.val.split_chapters[i]) = ClipLen(ret.val.split_clips[i])
            /\ Len(ret.val.split_chapters[i]) = ChapterCount(i) + 1

====
